---- MODULE Spec2Model ----
(***************************************************************************)
(* A model of rjg (cmd/root.go): the template resolution engine            *)
(* Generator.Generate / Generator.resolveVar, its helpers convertToInt and *)
(* joinAnySlice, and the iteration driver rootCmd.Run.                     *)
(*                                                                         *)
(* Go values (interface{}) are tagged records:                             *)
(*   nil                      [t |-> "nil"]                                *)
(*   bool                     [t |-> "bool",    b |-> TRUE]                *)
(*   float64 (a JSON number)  [t |-> "float64", x2 |-> twice the value]    *)
(*   int                      [t |-> "int",     n |-> 3]                   *)
(*   uint8, int8, ... int64   [t |-> "uint8",   n |-> 3]                   *)
(*   string                   [t |-> "string",  s |-> "abc"]               *)
(*   []interface{}            [t |-> "array",   a |-> <<...>>]             *)
(*   map[string]interface{}   [t |-> "object",  m |-> function on strings] *)
(* A float64 is held as twice its value so that the halves (2.5) that the  *)
(* truncation of convertToInt acts on are representable.                   *)
(*                                                                         *)
(* The two sources of nondeterminism of the program are explicit inputs of *)
(* every call: the state of the math/rand source (st.d), from which every  *)
(* draw is taken, and the state of the Go runtime's choice of the order in *)
(* which a range statement visits a map (st.o).  Each is a number read in  *)
(* a mixed radix: a draw in [0, n) is st.d % n and leaves st.d \div n.     *)
(***************************************************************************)
EXTENDS Integers, Sequences, FiniteSets, TLC

VARIABLES g, template, call, count, i, pc, result, file, stdout, calls

vars == <<g, template, call, count, i, pc, result, file, stdout, calls>>

(***************************************************************************)
(* Bounds of the model.                                                    *)
(***************************************************************************)
\* width of the machine integer (Go's int), scaled down from 64 bits
IntBits == 4
\* largest iteration index a direct call of Generate is given
MaxIndex == 1
\* the state of the randomness source at a call is a number in 0..MaxSource
MaxSource == 8
\* the state of the map order choice at a call is a number in 0..MaxOrder
MaxOrder == 3
\* largest --count of a run
MaxCount == 2

(***************************************************************************)
(* Strings.                                                                *)
(***************************************************************************)
\* strings.HasPrefix
HasPrefix(s, p) == Len(s) >= Len(p) /\ SubSeq(s, 1, Len(p)) = p

\* strings.TrimPrefix
TrimPrefix(s, p) == IF HasPrefix(s, p) THEN SubSeq(s, Len(p) + 1, Len(s)) ELSE s

\* the characters of keys, in byte order: "$", "-", ".", digits, letters, "_"
Ascii == "$-.0123456789ABCDEFGHIJKLMNOPQRSTUVWXYZ_abcdefghijklmnopqrstuvwxyz"

CharAt(s, k) == SubSeq(s, k, k)

CharOrd(c) == CHOOSE k \in 1..Len(Ascii) : CharAt(Ascii, k) = c

\* byte-wise string order (Go's < on strings), used where Go sorts map keys
RECURSIVE StringLess(_, _)
StringLess(a, b) ==
    IF Len(b) = 0 THEN FALSE
    ELSE IF Len(a) = 0 THEN TRUE
    ELSE IF CharAt(a, 1) = CharAt(b, 1)
         THEN StringLess(SubSeq(a, 2, Len(a)), SubSeq(b, 2, Len(b)))
         ELSE CharOrd(CharAt(a, 1)) < CharOrd(CharAt(b, 1))

RECURSIVE SortedKeys(_)
SortedKeys(S) ==
    IF S = {} THEN <<>>
    ELSE LET k == CHOOSE x \in S : \A y \in S \ {x} : StringLess(x, y)
         IN <<k>> \o SortedKeys(S \ {k})

RemoveAt(seq, k) == SubSeq(seq, 1, k - 1) \o SubSeq(seq, k + 1, Len(seq))

\* the p-th order of the elements of seq (factorial number system)
RECURSIVE PermOf(_, _)
PermOf(seq, p) ==
    IF Len(seq) = 0 THEN <<>>
    ELSE LET k == (p % Len(seq)) + 1
         IN <<seq[k]>> \o PermOf(RemoveAt(seq, k), p \div Len(seq))

Digit(d) == CharAt("0123456789", d + 1)

RECURSIVE NatToStr(_)
NatToStr(n) == IF n < 10 THEN Digit(n) ELSE NatToStr(n \div 10) \o Digit(n % 10)

\* the decimal form of an integer (strconv, %d)
IntToStr(n) == IF n < 0 THEN "-" \o NatToStr(-n) ELSE NatToStr(n)

\* the %v / JSON form of a float64 held as twice its value (halves only)
FloatToStr(x2) ==
    IF x2 % 2 = 0 THEN IntToStr(x2 \div 2)
    ELSE IF x2 < 0 THEN "-" \o NatToStr((-x2) \div 2) \o ".5"
         ELSE NatToStr(x2 \div 2) \o ".5"

(***************************************************************************)
(* Values.                                                                 *)
(***************************************************************************)
Null == [t |-> "nil"]
Bool(b) == [t |-> "bool", b |-> b]
Float(x2) == [t |-> "float64", x2 |-> x2]
Num(n) == Float(2 * n)
IntV(n) == [t |-> "int", n |-> n]
Typed(ty, n) == [t |-> ty, n |-> n]
Str(s) == [t |-> "string", s |-> s]
Arr(a) == [t |-> "array", a |-> a]
Obj(m) == [t |-> "object", m |-> m]

\* make(map[string]interface{})
EmptyMap == [k \in {} |-> Null]

TypedInts == {"uint8", "uint16", "uint32", "int8", "int16", "int32", "int64"}

(***************************************************************************)
(* Machine integers of IntBits bits, two's complement.                     *)
(***************************************************************************)
RECURSIVE Pow2(_)
Pow2(n) == IF n = 0 THEN 1 ELSE 2 * Pow2(n - 1)

MinInt == -Pow2(IntBits - 1)
MaxInt == Pow2(IntBits - 1) - 1

\* the value a Go int holds after an operation whose exact result is x
WrapInt(x) == ((x + Pow2(IntBits - 1)) % Pow2(IntBits)) - Pow2(IntBits - 1)

(***************************************************************************)
(* Results of a call: a value, a returned error (the chain of %w wrapped   *)
(* messages, outermost first), or a panic that ends the process.           *)
(***************************************************************************)
Ok(v) == [k |-> "ok", v |-> v]
Err(msg) == [k |-> "err", e |-> <<msg>>]
Panic(msg) == [k |-> "panic", p |-> msg]

\* fmt.Errorf("label: %w", err); a panic is not an error value and unwinds
WrapErr(label, r) == IF r.k = "err" THEN [k |-> "err", e |-> <<label>> \o r.e] ELSE r

(***************************************************************************)
(* The oracle of a call: st.d the state of the math/rand source, st.o the  *)
(* state of the runtime's choice of map orders.                            *)
(***************************************************************************)
\* rand.IntN(n), rand.UintN(n): panics unless n > 0, else a draw in [0, n)
IntN(n, st) ==
    IF n <= 0 THEN [ok |-> FALSE, n |-> 0, st |-> st]
    ELSE [ok |-> TRUE, n |-> st.d % n, st |-> [st EXCEPT !.d = st.d \div n]]

\* rand.Uint32(), rand.Int32(), rand.Int64(): a draw of the whole width
Bits(st) == [n |-> st.d, st |-> [st EXCEPT !.d = 0]]

RECURSIVE Factorial(_)
Factorial(n) == IF n <= 1 THEN 1 ELSE n * Factorial(n - 1)

\* the order in which a range statement visits the keys of map m
RangeOrder(m, st) == PermOf(SortedKeys(DOMAIN m), st.o)

AfterRange(m, st) == [st EXCEPT !.o = st.o \div Factorial(Cardinality(DOMAIN m))]

(***************************************************************************)
(* The Directive Registry.                                                 *)
(***************************************************************************)
prefixed == {"int", "str", "arr", "obj", "oneof", "option", "i", "u8", "u16",
             "u32", "i8", "i16", "i32", "i64", "digit", "bool", "alpha"}

isPredefinedVar(value) == value \in prefixed

(***************************************************************************)
(* convertToInt: float64 is truncated towards zero, int is kept, anything  *)
(* else (the sized integer types included) is refused.                     *)
(***************************************************************************)
convertToInt(value) ==
    CASE value.t = "float64" ->
            [n |-> IF value.x2 >= 0 THEN value.x2 \div 2 ELSE -((-value.x2) \div 2),
             ok |-> TRUE]
      [] value.t = "int" -> [n |-> value.n, ok |-> TRUE]
      [] OTHER -> [n |-> 0, ok |-> FALSE]

\* paramsMap[name]: the zero value nil for a missing key
MapGet(m, name) == IF name \in DOMAIN m THEN m[name] ELSE Null

(***************************************************************************)
(* fmt's %v of a value (fmt.Sprintf("%v", x), fmt.Sprint(x)).              *)
(***************************************************************************)
RECURSIVE Sprint(_)
RECURSIVE SprintSeq(_, _)
RECURSIVE SprintMap(_, _, _)
SprintSeq(a, k) ==
    IF k > Len(a) THEN ""
    ELSE (IF k > 1 THEN " " ELSE "") \o Sprint(a[k]) \o SprintSeq(a, k + 1)

SprintMap(m, keys, k) ==
    IF k > Len(keys) THEN ""
    ELSE (IF k > 1 THEN " " ELSE "") \o keys[k] \o ":" \o Sprint(m[keys[k]])
         \o SprintMap(m, keys, k + 1)

Sprint(v) ==
    CASE v.t = "nil" -> "<nil>"
      [] v.t = "bool" -> IF v.b THEN "true" ELSE "false"
      [] v.t = "float64" -> FloatToStr(v.x2)
      [] v.t = "int" -> IntToStr(v.n)
      [] v.t \in TypedInts -> IntToStr(v.n)
      [] v.t = "string" -> v.s
      [] v.t = "array" -> "[" \o SprintSeq(v.a, 1) \o "]"
      [] v.t = "object" -> "map[" \o SprintMap(v.m, SortedKeys(DOMAIN v.m), 1) \o "]"

RECURSIVE JoinSprint(_, _)
JoinSprint(a, k) == IF k > Len(a) THEN "" ELSE Sprint(a[k]) \o JoinSprint(a, k + 1)

\* joinAnySlice: the elements of a slice, each printed, joined by ""
joinAnySlice(res) ==
    IF res.t # "array" THEN Err("expected slice")
    ELSE Ok(Str(JoinSprint(res.a, 1)))

(***************************************************************************)
(* Generator.Generate and Generator.resolveVar.  Each returns [r, st]: the *)
(* result and the oracle left after the draws and map orders it used.      *)
(***************************************************************************)
RECURSIVE Generate(_, _, _, _)
RECURSIVE resolveVar(_, _, _, _, _, _)
RECURSIVE RangeTemplate(_, _, _, _, _, _)
RECURSIVE StrLoop(_, _, _, _, _, _)
RECURSIVE ArrLoop(_, _, _, _, _, _, _)

\* case "int": the bounds are read from the parameters, never resolved
IntBounds(paramsMap) ==
    [min |-> convertToInt(MapGet(paramsMap, "min")),
     max |-> convertToInt(MapGet(paramsMap, "max"))]

\* rand.IntN(max-min+1) + min in machine integers
IntDirective(min, max, st) ==
    LET n == IntN(WrapInt(max - min + 1), st)
    IN  IF ~n.ok THEN [r |-> Panic("invalid argument to IntN"), st |-> st]
        ELSE [r |-> Ok(IntV(WrapInt(n.n + min))), st |-> n.st]

\* case "option": nil parameters are refused, any other value is wrapped
OptionRefused(params) == params = Null

\* option as "the value or nothing": null added as a second alternative
OptionTemplateOrNull(params) == Obj("$oneof" :> Arr(<<params, Null>>))

OptionTemplate(params) == Obj("$oneof" :> Arr(<<params>>))

\* default case: a prefixed name is looked up in g.vars
IsUserVar(gen, variable, prefix) ==
    HasPrefix(variable, prefix) /\ TrimPrefix(variable, prefix) \in DOMAIN gen.vars

\* the undefined name returned as the literal string it is
UndefinedVariableAsLiteral(variable) == Ok(Str(variable))

\* default case, a prefixed name that is no directive and no variable
UndefinedVariable(variable) == Err("undefined variable")

\* the loop "for key, val := range t" of Generate, over the keys still to visit
RangeTemplate(gen, idx, t, keys, generated, st) ==
    IF keys = <<>> THEN [r |-> Ok(Obj(generated)), st |-> st]
    ELSE
      LET key == Head(keys)
          val == t[key]
      IN
      IF isPredefinedVar(TrimPrefix(key, gen.prefix))
      THEN LET out == resolveVar(gen, gen.prefix, key, val, idx, st)
           IN  [r |-> WrapErr("failed to resolve generator", out.r), st |-> out.st]
      ELSE
        LET rk == Generate(gen, idx, Str(key), st)
        IN
        IF rk.r.k # "ok"
        THEN [r |-> WrapErr("failed to resolve key", rk.r), st |-> rk.st]
        ELSE
          LET rv == Generate(gen, idx, val, rk.st)
          IN
          IF rv.r.k # "ok"
          THEN [r |-> WrapErr("failed to resolve val", rv.r), st |-> rv.st]
          ELSE IF rk.r.v.t = "string"
          THEN RangeTemplate(gen, idx, t, Tail(keys),
                             (rk.r.v.s :> rv.r.v) @@ generated, rv.st)
          ELSE [r |-> Err("keys must resolve to strings"), st |-> rv.st]

Generate(gen, idx, t, st) ==
    CASE t.t = "object" ->
            RangeTemplate(gen, idx, t.m, RangeOrder(t.m, st), EmptyMap,
                          AfterRange(t.m, st))
      [] t.t = "string" ->
            LET out == resolveVar(gen, gen.prefix, t.s, Null, idx, st)
            IN  [r |-> WrapErr("failed to resolve variable", out.r), st |-> out.st]
      [] OTHER -> [r |-> Ok(t), st |-> st]

\* case "str", a list: each element resolved, printed with %v, appended
StrLoop(gen, idx, paramsList, k, built, st) ==
    IF k > Len(paramsList) THEN [r |-> Ok(Str(built)), st |-> st]
    ELSE LET out == Generate(gen, idx, paramsList[k], st)
         IN  IF out.r.k # "ok" THEN out
             ELSE StrLoop(gen, idx, paramsList, k + 1, built \o Sprint(out.r.v), out.st)

\* the loop storing val itself, arr[z] = val, instead of its resolution
ArrLoopUnresolved(gen, idx, val, length, z, arr, st) ==
    [r |-> Ok(Arr([k \in 1..length |-> val])), st |-> st]

\* case "arr": the loop "for z := 0; z < length; z++"
ArrLoop(gen, idx, val, length, z, arr, st) ==
    IF z >= length THEN [r |-> Ok(Arr(arr)), st |-> st]
    ELSE LET out == Generate(gen, idx, val, st)
         IN  IF out.r.k # "ok" THEN out
             ELSE ArrLoop(gen, idx, val, length, z + 1, Append(arr, out.r.v), out.st)

resolveVar(gen, prefix, variable, params, idx, st) ==
    LET trimmedVar == TrimPrefix(variable, prefix)
        fail(msg) == [r |-> Err(msg), st |-> st]
        rnd(ty, n, off) == LET x == IntN(n, st) IN [r |-> Ok(Typed(ty, x.n + off)), st |-> x.st]
    IN
    CASE trimmedVar = "int" ->
            IF params.t = "object"
            THEN LET b == IntBounds(params.m)
                 IN  IF ~b.min.ok \/ ~b.max.ok
                     THEN fail("invalid min or max value for $int")
                     ELSE IntDirective(b.min.n, b.max.n, st)
            ELSE fail("$int requires a {min, max} object")
      [] trimmedVar = "str" ->
            IF params.t = "array"
            THEN StrLoop(gen, idx, params.a, 1, "", st)
            ELSE LET out == Generate(gen, idx, params, st)
                 IN  IF out.r.k # "ok" THEN out
                     ELSE [r |-> joinAnySlice(out.r.v), st |-> out.st]
      [] trimmedVar = "arr" ->
            IF params.t = "object"
            THEN LET resolvedLen == Generate(gen, idx, MapGet(params.m, "len"), st)
                 IN
                 IF resolvedLen.r.k # "ok"
                 THEN [r |-> WrapErr("failed to resolve length for $arr", resolvedLen.r),
                       st |-> resolvedLen.st]
                 ELSE
                   LET length == convertToInt(resolvedLen.r.v)
                   IN
                   IF ~length.ok
                   THEN [r |-> Err("invalid len value for $arr"), st |-> resolvedLen.st]
                   ELSE IF "val" \notin DOMAIN params.m
                   THEN [r |-> Err("missing val for $arr"), st |-> resolvedLen.st]
                   ELSE IF length.n < 0
                   THEN [r |-> Panic("makeslice: len out of range"), st |-> resolvedLen.st]
                   ELSE ArrLoop(gen, idx, params.m["val"], length.n, 0, <<>>,
                                resolvedLen.st)
            ELSE fail("$arr requires a {len, val} object")
      [] trimmedVar = "obj" ->
            IF params.t = "array" /\ Len(params.a) > 0
            THEN LET x == IntN(Len(params.a), st)
                     selectedObj == params.a[x.n + 1]
                 IN  IF selectedObj.t # "object"
                     THEN [r |-> Err("$obj must contain a list of objects"), st |-> x.st]
                     ELSE Generate(gen, idx, selectedObj, x.st)
            ELSE fail("$obj requires objects")
      [] trimmedVar = "oneof" ->
            IF params.t = "array"
            THEN LET x == IntN(Len(params.a), st)
                 IN  IF ~x.ok
                     THEN [r |-> Panic("invalid argument to IntN"), st |-> st]
                     ELSE Generate(gen, idx, params.a[x.n + 1], x.st)
            ELSE fail("$oneof requires a list of values")
      [] trimmedVar = "option" ->
            IF OptionRefused(params)
            THEN fail("$option requires a valid parameter")
            ELSE Generate(gen, idx, OptionTemplate(params), st)
      [] trimmedVar = "i" -> [r |-> Ok(IntV(idx)), st |-> st]
      [] trimmedVar = "u8" -> rnd("uint8", 256, 0)
      [] trimmedVar = "u16" -> rnd("uint16", 65536, 0)
      [] trimmedVar = "u32" -> [r |-> Ok(Typed("uint32", Bits(st).n)), st |-> Bits(st).st]
      [] trimmedVar = "i8" -> rnd("int8", 256, -128)
      [] trimmedVar = "i16" -> rnd("int16", 65536, -32768)
      [] trimmedVar = "i32" -> [r |-> Ok(Typed("int32", Bits(st).n)), st |-> Bits(st).st]
      [] trimmedVar = "i64" -> [r |-> Ok(Typed("int64", Bits(st).n)), st |-> Bits(st).st]
      [] trimmedVar = "digit" -> LET x == IntN(10, st) IN [r |-> Ok(IntV(x.n)), st |-> x.st]
      [] trimmedVar = "bool" -> LET x == IntN(2, st) IN [r |-> Ok(Bool(x.n = 1)), st |-> x.st]
      [] trimmedVar = "alpha" ->
            LET x == IntN(2, st)
                y == IntN(26, x.st)
            IN  [r |-> Ok(Str(CharAt(IF x.n = 0 THEN "abcdefghijklmnopqrstuvwxyz"
                                                ELSE "ABCDEFGHIJKLMNOPQRSTUVWXYZ",
                                     y.n + 1))),
                 st |-> y.st]
      [] OTHER ->
            IF HasPrefix(variable, prefix)
            THEN IF IsUserVar(gen, variable, prefix)
                 THEN LET out == Generate(gen, idx, gen.vars[TrimPrefix(variable, prefix)], st)
                      IN  [r |-> WrapErr("failed to resolve variable", out.r), st |-> out.st]
                 ELSE [r |-> UndefinedVariable(variable), st |-> st]
            ELSE [r |-> Ok(Str(variable)), st |-> st]

(***************************************************************************)
(* newGenerator: every user variable is parsed as JSON, and kept as the    *)
(* raw string when it does not parse.  json.Unmarshal is modelled on the   *)
(* texts the model passes with --var.                                      *)
(***************************************************************************)
IntParams(min, max) == Obj(("min" :> min) @@ ("max" :> max))
IntT(a, b) == Obj("$int" :> IntParams(Num(a), Num(b)))
ArrT(len, val) == Obj("$arr" :> Obj(("len" :> len) @@ ("val" :> val)))
OneofT(list) == Obj("$oneof" :> Arr(list))
ObjT(list) == Obj("$obj" :> Arr(list))
OptionT(v) == Obj("$option" :> v)
StrT(v) == Obj("$str" :> v)

JSONTexts ==
    ("\"Alice\"" :> Str("Alice")) @@
    ("2" :> Num(2)) @@
    ("\"$name\"" :> Str("$name")) @@
    ("{\"$int\":{\"min\":1,\"max\":1}}" :> IntT(1, 1)) @@
    ("\"a\"" :> Str("a")) @@
    ("[\"$i\"]" :> Arr(<<Str("$i")>>)) @@
    ("{\"$str\":[\"$\",\"i\"]}" :> StrT(Arr(<<Str("$"), Str("i")>>)))

\* json.Unmarshal([]byte(v), &parsedValue)
ParseJSON(text) ==
    IF text \in DOMAIN JSONTexts THEN [ok |-> TRUE, v |-> JSONTexts[text]]
    ELSE [ok |-> FALSE, v |-> Null]

newGenerator(userVars) ==
    [prefix |-> "$",
     vars |-> [k \in DOMAIN userVars |->
                  IF ParseJSON(userVars[k]).ok THEN ParseJSON(userVars[k]).v
                  ELSE Str(userVars[k])]]

\* the --var maps of the model: none; scalars, a token, a directive object and
\* an unparsable text; and those with an array literal and a str directive
PlainVars ==
    ("name" :> "\"Alice\"") @@ ("n" :> "2") @@ ("ref" :> "\"$name\"") @@
    ("gen" :> "{\"$int\":{\"min\":1,\"max\":1}}") @@ ("k" :> "\"a\"") @@
    ("raw" :> "Bob") @@ ("tok" :> "$i")

UserVars ==
    { [k \in {} |-> ""],
      PlainVars,
      PlainVars @@ ("list" :> "[\"$i\"]") @@ ("mk" :> "{\"$str\":[\"$\",\"i\"]}") }

(***************************************************************************)
(* The templates of the model.                                             *)
(***************************************************************************)
Literals ==
    { Null, Bool(TRUE), Num(1), Float(5), Str("a"), Obj(EmptyMap),
      Obj("a" :> Num(1)), Obj("a" :> Obj("b" :> Str("c"))),
      Obj(("a" :> Num(1)) @@ ("b" :> Str("x"))), Obj("a" :> Null) }

\* strings and keys that spell a directive name without the prefix
Unprefixed ==
    { Str("i"), Str("int"), Str("bool"), Str("str"), Obj("a" :> Str("i")),
      Obj("i" :> Num(1)), Obj("a" :> Obj("digit" :> Str("x"))) }

Tokens ==
    { Str("$" \o n) : n \in prefixed } \cup
    { Str("$name"), Str("$n"), Str("$ref"), Str("$gen"), Str("$raw"), Str("$tok"),
      Str("$list"), Str("$mk"), Str("$k"), Str("$undef"), Str("$$i"), Str("$") }

PlainObjects ==
    { Obj("x" :> Str("$undef")), Obj("x" :> Obj("y" :> Str("$undef"))),
      Obj("greeting" :> Str("$name")), Obj("x" :> Obj("y" :> Str("$ref"))),
      Obj(("x" :> Str("$undef")) @@ ("b" :> Obj("$int" :> Num(5)))),
      Obj(("x" :> Str("$undef")) @@ ("y" :> Num(1))),
      Obj(("x" :> Str("$undef")) @@ ("y" :> OneofT(<<>>))),
      Obj("$name" :> Num(1)), Obj("$n" :> Num(1)), Obj("$undef" :> Num(1)),
      Obj(("a" :> Num(1)) @@ ("$k" :> Num(2))),
      Obj(("id" :> Str("$i")) @@ ("tag" :> Str("$alpha"))),
      Obj("a" :> IntT(1, 1)), Obj("a" :> Arr(<<Str("$i")>>)),
      Obj("$mk" :> Num(1)) }

Mixed ==
    { Obj(("$i" :> Null) @@ ("x" :> Str("$undef"))),
      Obj(("$int" :> IntParams(Num(1), Num(1))) @@ ("a" :> Num(1))),
      Obj(("$i" :> Null) @@ ("$n" :> Num(1))),
      Obj(("$i" :> Null) @@ ("$int" :> IntParams(Num(1), Num(1)))),
      Obj(("$digit" :> Null) @@ ("a" :> Str("$bool"))),
      Obj(("$oneof" :> Arr(<<Num(1), Num(2)>>)) @@ ("a" :> Str("$name"))) }

IntEdges == {MinInt, -1, 0, 1, MaxInt}

IntTemplates ==
    { IntT(a, b) : a \in IntEdges, b \in IntEdges } \cup
    { Obj("$int" :> Obj("min" :> Num(1))), Obj("$int" :> Obj("max" :> Num(1))),
      Obj("$int" :> IntParams(Str("x"), Num(2))),
      Obj("$int" :> IntParams(Num(0), Str("$i"))),
      Obj("$int" :> IntParams(Num(0), Bool(TRUE))),
      Obj("$int" :> IntParams(Float(1), Float(5))),
      Obj("$int" :> Num(5)), Obj("int" :> IntParams(Num(0), Num(1))) }

ArrLens ==
    { Num(0), Num(1), Num(2), Num(-1), Float(5), Float(1), Str("x"), Bool(TRUE), Null,
      Str("$i"), Str("$n"), Str("$u8"), Str("$digit"), Str("$undef"), IntT(1, 2),
      IntT(-1, -1), Arr(<<Num(1)>>) }

ArrTemplates ==
    { ArrT(len, Str("$digit")) : len \in ArrLens } \cup
    { ArrT(Num(2), OneofT(<<Num(1), Num(2), Num(3)>>)),
      ArrT(Num(2), Str("$undef")), ArrT(Str("$i"), Str("$undef")),
      ArrT(Num(2), Arr(<<Str("$i")>>)), ArrT(Num(2), Str("$i")),
      Obj("$arr" :> Obj("val" :> Num(1))), Obj("$arr" :> Obj("len" :> Num(1))),
      Obj("$arr" :> Obj("len" :> Float(5))), Obj("$arr" :> Num(5)),
      Obj("list" :> ArrT(Num(2), OneofT(<<Num(1), Num(2), Num(3)>>))) }

ChoiceTemplates ==
    { OneofT(<<Num(1)>>), OneofT(<<Num(1), Num(2)>>), OneofT(<<Num(1), Num(2), Num(3)>>),
      OneofT(<<Str("$i"), Str("$undef")>>), OneofT(<<>>), OneofT(<<Str("$digit")>>),
      OneofT(<<Obj("a" :> Str("$i"))>>), OneofT(<<Arr(<<Str("$i")>>)>>),
      OneofT(<<Null, Str("$name")>>), Obj("$oneof" :> Num(5)),
      OneofT(<<IntT(0, 1), Str("$bool")>>),
      ObjT(<<Obj("a" :> Num(1))>>), ObjT(<<Obj("a" :> Str("$i")), Obj("b" :> Num(2))>>),
      ObjT(<<IntT(0, 1), Obj("b" :> Str("$undef")), Obj(EmptyMap)>>),
      ObjT(<<>>), ObjT(<<Num(1)>>), ObjT(<<Obj("a" :> Num(1)), Num(2)>>),
      Obj("$obj" :> Num(5)),
      OptionT(Num(1)), OptionT(Str("$i")), OptionT(Null), OptionT(Str("$undef")),
      OptionT(Obj("a" :> Str("$i"))), OptionT(Arr(<<Num(1), Num(2)>>)),
      OptionT(Str("$bool")), OptionT(Bool(FALSE)), OptionT(OneofT(<<Num(1), Num(2)>>)) }

StrTemplates ==
    { StrT(Arr(<<Str("a"), Str("$i")>>)), StrT(Arr(<<Str("$"), Str("i")>>)),
      StrT(Arr(<<Str("$"), Str("name")>>)), StrT(Arr(<<Str("$"), Str("zzz")>>)),
      StrT(ArrT(Num(2), Str("$i"))), StrT(Num(5)), StrT(Arr(<<>>)),
      StrT(Arr(<<Num(1), Float(5), Float(-1), Bool(TRUE), Null>>)),
      StrT(Arr(<<Arr(<<Num(1), Str("a")>>), Obj(("b" :> Num(1)) @@ ("a" :> Null))>>)),
      StrT(Arr(<<Str("$undef")>>)), StrT(Arr(<<Str("$u8"), Str("$i8")>>)),
      StrT(Str("$list")), Obj("k" :> StrT(Arr(<<Str("$"), Str("i")>>))),
      Obj(StrT(Arr(<<Str("x")>>)).m @@ ("a" :> Num(1))) }

ArrayLiterals ==
    { Arr(<<Str("$i")>>), Arr(<<Num(1), Num(2)>>), Arr(<<>>),
      Arr(<<Obj("$i" :> Null)>>), Arr(<<Str("$name")>>), Arr(<<Obj("$k" :> Num(1))>>) }

Templates ==
    Literals \cup Unprefixed \cup Tokens \cup PlainObjects \cup Mixed \cup IntTemplates
    \cup ArrTemplates \cup ChoiceTemplates \cup StrTemplates \cup ArrayLiterals

(***************************************************************************)
(* Calls of Generate on a generator (Spec).                                *)
(***************************************************************************)
Draws == 0..MaxSource
Orders == 0..MaxOrder

NoCall == [i |-> -1, d |-> 0, o |-> 0, r |-> [k |-> "none"]]

RunIdle ==
    /\ count = 0
    /\ i = 0
    /\ pc = "idle"
    /\ result = Null
    /\ file = <<>>
    /\ stdout = <<>>
    /\ calls = <<>>

Init ==
    /\ g \in {newGenerator(uv) : uv \in UserVars}
    /\ template \in Templates
    /\ call = NoCall
    /\ RunIdle

\* generator.Generate(idx, template), with the draws and map orders it meets
GenerateCall(idx, d, o) ==
    /\ call = NoCall
    /\ call' = [i |-> idx, d |-> d, o |-> o,
                r |-> Generate(g, idx, template, [d |-> d, o |-> o]).r]
    /\ UNCHANGED <<g, template, count, i, pc, result, file, stdout, calls>>

\* a later call with the same template, index and randomness; the runtime
\* picks the map orders afresh
GenerateAgain(o) ==
    /\ call # NoCall
    /\ call' = [call EXCEPT !.o = o,
                            !.r = Generate(g, call.i, template, [d |-> call.d, o |-> o]).r]
    /\ UNCHANGED <<g, template, count, i, pc, result, file, stdout, calls>>

Next ==
    \/ \E idx \in 0..MaxIndex, d \in Draws, o \in Orders : GenerateCall(idx, d, o)
    \/ \E o \in Orders : GenerateAgain(o)

Spec == Init /\ [][Next]_vars

(***************************************************************************)
(* json.Marshal of a result.                                               *)
(***************************************************************************)
\* encoding/json escapes the quote, the backslash and (HTML-safe) <, >, &
EscapeChar(c) ==
    CASE c = "\"" -> "\\\""
      [] c = "\\" -> "\\\\"
      [] c = "<" -> "\\u003c"
      [] c = ">" -> "\\u003e"
      [] c = "&" -> "\\u0026"
      [] OTHER -> c

RECURSIVE Escape(_)
Escape(str) ==
    IF Len(str) = 0 THEN ""
    ELSE EscapeChar(CharAt(str, 1)) \o Escape(SubSeq(str, 2, Len(str)))

Quote(str) == "\"" \o Escape(str) \o "\""

RECURSIVE Marshal(_)
RECURSIVE MarshalSeq(_, _)
RECURSIVE MarshalMap(_, _, _)
MarshalSeq(a, k) ==
    IF k > Len(a) THEN ""
    ELSE (IF k > 1 THEN "," ELSE "") \o Marshal(a[k]) \o MarshalSeq(a, k + 1)

MarshalMap(m, keys, k) ==
    IF k > Len(keys) THEN ""
    ELSE (IF k > 1 THEN "," ELSE "") \o Quote(keys[k]) \o ":" \o Marshal(m[keys[k]])
         \o MarshalMap(m, keys, k + 1)

Marshal(v) ==
    CASE v.t = "nil" -> "null"
      [] v.t = "bool" -> IF v.b THEN "true" ELSE "false"
      [] v.t = "float64" -> FloatToStr(v.x2)
      [] v.t = "int" -> IntToStr(v.n)
      [] v.t \in TypedInts -> IntToStr(v.n)
      [] v.t = "string" -> Quote(v.s)
      [] v.t = "array" -> "[" \o MarshalSeq(v.a, 1) \o "]"
      [] v.t = "object" -> "{" \o MarshalMap(v.m, SortedKeys(DOMAIN v.m), 1) \o "}"

(***************************************************************************)
(* rootCmd.Run (RunSpec): the iteration driver.  calls is the history of   *)
(* the calls of Generate the run has made, each with its index and result. *)
(***************************************************************************)
\* an args[len(args)-1] that json.Unmarshal refuses
InvalidJSON == [t |-> "invalid"]

RunTemplates ==
    { Str("$i"), Obj("id" :> Str("$i")), StrT(Arr(<<Str("r"), Str("$i")>>)),
      Str("$undef"), Str("$name"), OneofT(<<Str("$i"), Str("$undef")>>),
      OneofT(<<>>), Num(1), Str("$digit"), ArrT(Str("$i"), Str("$undef")),
      ArrT(Str("$i"), Str("$i")), StrT(Arr(<<Null>>)),
      Obj(("a" :> Str("$i")) @@ ("$k" :> Num(2))), Arr(<<Str("$i")>>),
      IntT(0, 1), Obj(("id" :> Str("$i")) @@ ("tag" :> Str("$alpha"))) }

RunInit ==
    /\ g \in {newGenerator(uv) : uv \in UserVars}
    /\ template \in RunTemplates \cup {InvalidJSON}
    /\ call = NoCall
    /\ count \in 0..MaxCount
    /\ i = 0
    /\ pc = "create"
    /\ result = Null
    /\ file = <<>>
    /\ stdout = <<>>
    /\ calls = <<>>

\* the error of Generate left unchecked: the run goes on to write the record
AfterGenerateUnchecked(res) == IF res.k = "panic" THEN "panic" ELSE "write_file"

\* where the run goes after generator.Generate returned res
AfterGenerate(res) ==
    CASE res.k = "ok" -> "write_file"
      [] res.k = "err" -> "exit1"
      [] OTHER -> "panic"

\* os.Create("commands.jsonl")
CreateFile ==
    /\ pc = "create"
    /\ pc' = "unmarshal"
    /\ UNCHANGED <<g, template, call, count, i, result, file, stdout, calls>>

CreateFileFails ==
    /\ pc = "create"
    /\ pc' = "exit1"
    /\ UNCHANGED <<g, template, call, count, i, result, file, stdout, calls>>

\* json.Unmarshal([]byte(argsData.template), &template)
UnmarshalTemplate ==
    /\ pc = "unmarshal"
    /\ template # InvalidJSON
    /\ pc' = "loop"
    /\ UNCHANGED <<g, template, call, count, i, result, file, stdout, calls>>

UnmarshalFails ==
    /\ pc = "unmarshal"
    /\ template = InvalidJSON
    /\ pc' = "returned"
    /\ UNCHANGED <<g, template, call, count, i, result, file, stdout, calls>>

\* the loop body up to the error check: result, err := generator.Generate(i, template)
Iterate(d, o) ==
    /\ pc = "loop"
    /\ i < count
    /\ LET res == Generate(g, i, template, [d |-> d, o |-> o]).r
       IN  /\ calls' = Append(calls, [i |-> i, r |-> res])
           /\ result' = IF res.k = "ok" THEN res.v ELSE Null
           /\ pc' = AfterGenerate(res)
    /\ UNCHANGED <<g, template, call, count, i, file, stdout>>

LoopEnds ==
    /\ pc = "loop"
    /\ i >= count
    /\ pc' = "returned"
    /\ UNCHANGED <<g, template, call, count, i, result, file, stdout, calls>>

\* file.WriteString(string(jsonOutput) + "\n")
WriteFile ==
    /\ pc = "write_file"
    /\ file' = Append(file, Marshal(result) \o "\n")
    /\ pc' = "write_stdout"
    /\ UNCHANGED <<g, template, call, count, i, result, stdout, calls>>

\* a failed write: the record is not in the file, the run exits
WriteFileFails ==
    /\ pc = "write_file"
    /\ pc' = "exit1"
    /\ UNCHANGED <<g, template, call, count, i, result, file, stdout, calls>>

\* fmt.Println(string(jsonOutput)); i++
WriteStdout ==
    /\ pc = "write_stdout"
    /\ stdout' = Append(stdout, Marshal(result) \o "\n")
    /\ i' = i + 1
    /\ pc' = "loop"
    /\ UNCHANGED <<g, template, call, count, result, file, calls>>

Run ==
    \/ CreateFile
    \/ CreateFileFails
    \/ UnmarshalTemplate
    \/ UnmarshalFails
    \/ \E d \in Draws, o \in Orders : Iterate(d, o)
    \/ LoopEnds
    \/ WriteFile
    \/ WriteFileFails
    \/ WriteStdout

RunSpec == RunInit /\ [][Run]_vars

(***************************************************************************)
(* Properties of a call of Generate (Spec).                                *)
(***************************************************************************)
Called == call # NoCall

Oracle == [d |-> call.d, o |-> call.o]

\* the oracle after the one draw that picks among k alternatives
AfterPick(k) == IntN(k, Oracle).st

AllOracles == {[d |-> d, o |-> o] : d \in Draws, o \in Orders}

IsSuffix(a, b) == Len(a) <= Len(b) /\ SubSeq(b, Len(b) - Len(a) + 1, Len(b)) = a

\* r is the outcome inner, up to the messages the callers wrap an error in
SameOutcome(r, inner) ==
    /\ r.k = inner.k
    /\ r.k = "ok" => r.v = inner.v
    /\ r.k = "err" => IsSuffix(inner.e, r.e)

IsUndefinedError(r) == r.k = "err" /\ r.e[Len(r.e)] = "undefined variable"

DirectiveKeys(m) == {k \in DOMAIN m : TrimPrefix(k, "$") \in prefixed}

IsDirectiveObject(t, name) == t.t = "object" /\ DOMAIN t.m = {name}

IsInteger(v) ==
    \/ v.t = "int"
    \/ v.t \in TypedInts
    \/ v.t = "float64" /\ v.x2 % 2 = 0

IntegerOf(v) == IF v.t = "float64" THEN v.x2 \div 2 ELSE v.n

\* C1: an object with exactly one directive key resolves to the result of
\* that directive on that key's value, whatever the other keys and their
\* values are and in whatever order the keys are visited.
C1_OneDirectiveKeyDecides ==
    Called /\ template.t = "object" /\ Cardinality(DirectiveKeys(template.m)) = 1 =>
        LET key == CHOOSE k \in DirectiveKeys(template.m) : TRUE
            direct == resolveVar(g, "$", key, template.m[key], call.i,
                                 AfterRange(template.m, Oracle)).r
        IN  SameOutcome(call.r, direct)

RECURSIVE NoPrefixNoArray(_)
NoPrefixNoArray(t) ==
    CASE t.t = "array" -> FALSE
      [] t.t = "string" -> ~HasPrefix(t.s, "$")
      [] t.t = "object" ->
            \A k \in DOMAIN t.m : ~HasPrefix(k, "$") /\ NoPrefixNoArray(t.m[k])
      [] OTHER -> TRUE

\* C2: a template of null, booleans, numbers, objects, and strings and keys
\* that do not begin with "$", with no arrays, is returned unchanged and
\* without error for every iteration index.
C2_UnprefixedRoundTrips ==
    Called /\ NoPrefixNoArray(template) => call.r = Ok(template)

\* C3: a call of Generate ends by returning a value or an error, never by a
\* crash of the process.
C3_ReturnsValueOrError == Called => call.r.k \in {"ok", "err"}

IsVarToken(t) ==
    t.t = "string" /\ HasPrefix(t.s, "$") /\ TrimPrefix(t.s, "$") \notin prefixed

IsStored(t) == TrimPrefix(t.s, "$") \in DOMAIN g.vars

\* values that resolve to themselves whatever the oracle
RECURSIVE Inert(_)
Inert(t) ==
    CASE t.t = "string" -> ~HasPrefix(t.s, "$") /\ t.s \notin prefixed
      [] t.t = "object" ->
            \A k \in DOMAIN t.m :
                ~HasPrefix(k, "$") /\ k \notin prefixed /\ Inert(t.m[k])
      [] OTHER -> TRUE

\* an undefined token, or a plain object that holds one as a value at some depth
RECURSIVE HoldsUndefined(_)
HoldsUndefined(t) ==
    \/ IsVarToken(t) /\ ~IsStored(t)
    \/ /\ t.t = "object"
       /\ DirectiveKeys(t.m) = {}
       /\ \E k \in DOMAIN t.m : HoldsUndefined(t.m[k])

\* as HoldsUndefined, and nothing else in the object can fail
RECURSIVE OnlyUndefinedFails(_)
OnlyUndefinedFails(t) ==
    \/ IsVarToken(t) /\ ~IsStored(t)
    \/ /\ t.t = "object"
       /\ \E k \in DOMAIN t.m : OnlyUndefinedFails(t.m[k])
       /\ \A k \in DOMAIN t.m :
            /\ Inert(Str(k))
            /\ OnlyUndefinedFails(t.m[k]) \/ Inert(t.m[k])

\* C4: a "$" string that names no directive resolves to the resolution of
\* the stored variable of that name, and to an undefined-variable error,
\* never to a value, when no variable has that name; the error also ends
\* the call on a plain object holding the string as a value at any depth.
C4_VariableOrUndefinedError ==
    Called =>
        /\ IsVarToken(template) /\ IsStored(template) =>
              SameOutcome(call.r,
                  Generate(g, call.i, g.vars[TrimPrefix(template.s, "$")], Oracle).r)
        /\ IsVarToken(template) /\ ~IsStored(template) => IsUndefinedError(call.r)
        /\ HoldsUndefined(template) => call.r.k # "ok"
        /\ OnlyUndefinedFails(template) => IsUndefinedError(call.r)

C4_Witness ==
    /\ Called
    /\ template.t = "object"
    /\ Cardinality(DOMAIN template.m) >= 2
    /\ OnlyUndefinedFails(template)
    /\ IsUndefinedError(call.r)

IsMarker(str) ==
    /\ HasPrefix(str, "$")
    /\ TrimPrefix(str, "$") \in prefixed \cup DOMAIN g.vars

RECURSIVE FullyResolved(_)
FullyResolved(v) ==
    CASE v.t = "string" -> ~IsMarker(v.s)
      [] v.t = "array" -> \A k \in 1..Len(v.a) : FullyResolved(v.a[k])
      [] v.t = "object" ->
            \A k \in DOMAIN v.m : ~IsMarker(k) /\ FullyResolved(v.m[k])
      [] OTHER -> TRUE

\* no str directive, and no array but the list of an oneof or obj directive
RECURSIVE NoStrNoArrayLiteral(_)
NoStrNoArrayLiteral(t) ==
    CASE t.t = "array" -> FALSE
      [] t.t = "string" -> TrimPrefix(t.s, "$") # "str"
      [] t.t = "object" ->
            \A k \in DOMAIN t.m :
                /\ TrimPrefix(k, "$") # "str"
                /\ IF TrimPrefix(k, "$") \in {"oneof", "obj"} /\ t.m[k].t = "array"
                   THEN \A j \in 1..Len(t.m[k].a) : NoStrNoArrayLiteral(t.m[k].a[j])
                   ELSE NoStrNoArrayLiteral(t.m[k])
      [] OTHER -> TRUE

IsArrDirective(t) == IsDirectiveObject(t, "$arr") /\ t.m["$arr"].t = "object"

\* C6: arr{len, val} is an array of exactly n elements when len resolves to
\* an integer n, and an error when len is missing or resolves to a string,
\* a boolean or a number with a fractional part, or when val is missing.
C6_ArrLength ==
    Called /\ IsArrDirective(template) =>
        LET p == template.m["$arr"].m
            len == Generate(g, call.i, MapGet(p, "len"), Oracle)
        IN  /\ len.r.k = "ok" /\ IsInteger(len.r.v) /\ "val" \in DOMAIN p =>
                /\ call.r.k = "ok" =>
                      /\ call.r.v.t = "array"
                      /\ Len(call.r.v.a) = IntegerOf(len.r.v)
                /\ \/ call.r.k = "ok"
                   \/ \E st \in AllOracles : Generate(g, call.i, p["val"], st).r.k # "ok"
            /\ (len.r.k = "ok" /\ ~IsInteger(len.r.v)) \/ "val" \notin DOMAIN p =>
                call.r.k = "err"

IsIntDirective(t) == IsDirectiveObject(t, "$int") /\ t.m["$int"].t = "object"

\* C7: int{min: a, max: b} with integers a <= b yields an integer r with
\* a <= r <= b over the whole range of machine integers, and an error when
\* a bound is missing or not a number.
C7_IntInRange ==
    Called /\ IsIntDirective(template) =>
        LET min == MapGet(template.m["$int"].m, "min")
            max == MapGet(template.m["$int"].m, "max")
        IN  /\ /\ min.t = "float64" /\ IsInteger(min)
               /\ max.t = "float64" /\ IsInteger(max)
               /\ IntegerOf(min) <= IntegerOf(max)
               => /\ call.r.k = "ok"
                  /\ call.r.v.t = "int"
                  /\ IntegerOf(min) <= call.r.v.n
                  /\ call.r.v.n <= IntegerOf(max)
            /\ min.t # "float64" \/ max.t # "float64" => call.r.k = "err"

\* the alternatives of an oneof over a list of k >= 1 values, of an obj over
\* a list of k >= 1 objects, and of an option over the value other than null
ListedAlternatives(t) ==
    IF /\ IsDirectiveObject(t, "$oneof")
       /\ t.m["$oneof"].t = "array"
    THEN t.m["$oneof"].a
    ELSE IF /\ IsDirectiveObject(t, "$obj")
            /\ t.m["$obj"].t = "array"
            /\ \A j \in 1..Len(t.m["$obj"].a) : t.m["$obj"].a[j].t = "object"
    THEN t.m["$obj"].a
    ELSE IF IsDirectiveObject(t, "$option") /\ t.m["$option"] # Null
    THEN <<t.m["$option"]>>
    ELSE <<>>

IsOptionNull(t) == IsDirectiveObject(t, "$option") /\ t.m["$option"] = Null

ResolvesOneOf(list) ==
    \E j \in 1..Len(list) :
        SameOutcome(call.r, Generate(g, call.i, list[j], AfterPick(Len(list))).r)

\* C8 as stated: oneof, obj and option (over every value, null included)
\* return the resolution of one of the listed elements and nothing else.
C8_ChoiceResolvesAListedElement ==
    Called =>
        /\ ListedAlternatives(template) # <<>> =>
              ResolvesOneOf(ListedAlternatives(template))
        /\ IsOptionNull(template) => ResolvesOneOf(<<Null>>)

\* C8 as amended: the same for option over every value but null; option
\* over null returns an error.
C8_ChoiceResolvesAListedElementOrRefusesNull ==
    Called =>
        /\ ListedAlternatives(template) # <<>> =>
              ResolvesOneOf(ListedAlternatives(template))
        /\ IsOptionNull(template) => call.r.k = "err"

C8_Witness ==
    /\ Called
    /\ Len(ListedAlternatives(template)) >= 2
    /\ call.r.k = "ok"
    /\ call.r = Generate(g, call.i, ListedAlternatives(template)[2],
                          AfterPick(Len(ListedAlternatives(template)))).r
    /\ call.r # Generate(g, call.i, ListedAlternatives(template)[1],
                          AfterPick(Len(ListedAlternatives(template)))).r

\* C10: two calls with the same template, Variable Store, index and draws
\* return the same value or the same error, in whatever order the keys of
\* the objects are visited.
C10_SameInputsSameResult ==
    [][(Called /\ call'.i = call.i /\ call'.d = call.d) => call'.r = call.r]_vars

(***************************************************************************)
(* Properties of a run (RunSpec).                                          *)
(***************************************************************************)
\* C9: Generate is called with the indices 0, 1, ... in order, at most count
\* times; the k-th record is the result for index k; a record is in the file
\* before it is on standard output; the first error stops the run with the
\* earlier records in both sinks and no later record.
C9_RecordsInOrderUntilFirstError ==
    /\ Len(calls) <= count
    /\ \A k \in 1..Len(calls) : calls[k].i = k - 1
    /\ Len(file) <= Len(calls)
    /\ \A k \in 1..Len(file) :
          /\ calls[k].r.k = "ok"
          /\ file[k] = Marshal(calls[k].r.v) \o "\n"
          /\ template = Str("$i") => file[k] = IntToStr(k - 1) \o "\n"
    /\ Len(stdout) <= Len(file)
    /\ Len(file) <= Len(stdout) + 1
    /\ \A k \in 1..Len(stdout) : stdout[k] = file[k]
    /\ \A f \in 1..Len(calls) :
          calls[f].r.k = "err" =>
              /\ f = Len(calls)
              /\ Len(file) = f - 1
              /\ Len(stdout) = f - 1
              /\ pc = "exit1"

C9_Witness ==
    /\ Len(calls) >= 2
    /\ calls[Len(calls)].r.k = "err"
    /\ Len(file) = Len(calls) - 1
    /\ Len(stdout) = Len(calls) - 1
    /\ pc = "exit1"

====
